---- MODULE Spec2Model ----
(***************************************************************************)
(* UpperCompGUI: the control-and-metering surface of the compressor patch. *)
(* The element keeps knob values, meter values, the waveform history and   *)
(* the animation-frame handle; the patch connection calls its listeners    *)
(* and the browser calls its DOM handlers and its frame callback.          *)
(*                                                                         *)
(* JavaScript numbers are modelled in fixed point: one unit is 1/Scale.    *)
(* Every literal of the source is a whole number of units, and a product   *)
(* with the smoothing factor or the gesture sensitivity is rounded to the  *)
(* nearest unit.  The smoothing threshold 0.0001 is Epsilon units, several *)
(* units wide, so that (as with doubles) a step taken while the gap        *)
(* exceeds the threshold is never rounded to nothing.                      *)
(***************************************************************************)
EXTENDS Integers, Sequences, FiniteSets, TLC

\* ------------------------------------------------------------------------
\* Bounds of the exploration
\* ------------------------------------------------------------------------
\* ingestion events (host events, pointer events, clicks) explored per run
MaxEvents == 2
\* connectedCallback calls explored per run
MaxStarts == 2
\* frames explored per run
MaxTicks == 3
\* capacity of the waveform history explored (the source sets 30)
historyLength == 2
\* largest historyUpdateRate explored (the source sets 1)
MaxRate == 2
\* steps of the grid of blend factors explored over [0, 1]
EaseSteps == 20

\* ------------------------------------------------------------------------
\* Numbers
\* ------------------------------------------------------------------------
Scale == 10^5

\* the number n/d, in units
Dec(n, d) == (n * Scale) \div d

Abs(x) == IF x < 0 THEN -x ELSE x

Max(a, b) == IF a >= b THEN a ELSE b

Min(a, b) == IF a <= b THEN a ELSE b

\* a/b rounded to the nearest integer (b > 0)
RoundDiv(a, b) == (a \div b) + (IF 2 * (a % b) >= b THEN 1 ELSE 0)

\* Math.max(lo, Math.min(hi, x))
Clamp(x, lo, hi) == Max(lo, Min(hi, x))

\* ------------------------------------------------------------------------
\* Static descriptors
\* ------------------------------------------------------------------------
\* The two source variants differ in two literals only.
Variants == {"compui", "part_000"}

\* the knobs modelled, in document order (Object.keys order of this.knobs)
ParamOrder == <<"inputGainIn", "thresholdDbIn">>

Params == {ParamOrder[i] : i \in 1..Len(ParamOrder)}

knobMin(p) == IF p = "inputGainIn" THEN Dec(-25, 1) ELSE Dec(-60, 1)

knobMax(p) == IF p = "inputGainIn" THEN Dec(25, 1) ELSE Dec(0, 1)

knobInit(p) == IF p = "inputGainIn" THEN Dec(0, 1) ELSE Dec(-28, 1)

Toggles == {"enableLookAheadIn", "sidechainFilterEnableIn"}

MeterEndpoints == {"gainReduction", "inputMeter", "outputMeter"}

\* the keys of this.meters
MeterNames == {"gainReduction", "inputLevel", "outputLevel"}

\* the meter a meter endpoint writes
meterOf(e) ==
  IF e = "gainReduction" THEN "gainReduction"
  ELSE IF e = "inputMeter" THEN "inputLevel" ELSE "outputLevel"

ListenerKinds ==
  {"param", "postSatMeter", "drag", "click"} \cup MeterEndpoints \cup Toggles

decayRate == Dec(5, 10)

Epsilon == Dec(1, 10000)

silenceFloor == Dec(-50, 1)

deadZone == Dec(5, 100)

ledThreshold == Dec(8, 1)

\* sensitivity in adjustKnobValue, as a fraction
sensitivityNum(v) == IF v = "compui" THEN 3 ELSE 10

sensitivityDen == 10

\* the smoothing multiplier in animate, as a fraction
smoothingNum(v) == IF v = "compui" THEN 2 ELSE 5

smoothingDen == 10

\* ------------------------------------------------------------------------
\* Inputs explored
\* ------------------------------------------------------------------------
\* keys of host parameter echoes: the knobs and one key the UI does not render
EchoKeys == Params \cup {"bypassIn"}

EchoValues == {Dec(-40, 1), Dec(5, 1)}

SampleValues(e) ==
  IF e = "gainReduction" THEN {Dec(3, 100), Dec(-6, 1)}
  ELSE IF e = "inputMeter" THEN {Dec(-55, 1), Dec(-35, 1)}
  ELSE {Dec(-35, 1)}

PostSatValues == {Dec(79, 10), Dec(8, 1)}

ClientYs == {0, 60}

\* ------------------------------------------------------------------------
\* State
\* ------------------------------------------------------------------------
VARIABLES
  variant,                \* which source variant runs
  connected,              \* the element is in the document
  knobs,                  \* this.knobs
  meters,                 \* this.meters
  waveformHistory,        \* this.waveformHistory
  frameCount,             \* this.frameCount
  historyUpdateRate,      \* this.historyUpdateRate
  currentThresholdDb,     \* this.currentThresholdDb
  animationFrameRequest,  \* this.animationFrameRequest (0: undefined)
  pendingFrames,          \* frame requests the browser holds
  listeners,              \* handlers registered, per kind
  toggles,                \* 'active' class of each toggle button
  saturationLed,          \* 'on' class of #saturationLed
  sent,                   \* sendEventOrValue calls of the last step
  last,                   \* the last step taken
  rendered,               \* what the page shows: meter readouts, LEDs, canvas
  pushed,                 \* the history samples pushed in the counted frames
  eventsLeft, startsLeft, ticksLeft

vars ==
  <<variant, connected, knobs, meters, waveformHistory, frameCount,
    historyUpdateRate, currentThresholdDb, animationFrameRequest,
    pendingFrames, listeners, toggles, saturationLed, sent, last, rendered,
    pushed, eventsLeft, startsLeft, ticksLeft>>

Step(op, key, value) == [op |-> op, key |-> key, value |-> value]

Msg(param, value) == [param |-> param, value |-> value]

\* ------------------------------------------------------------------------
\* Rendering (updateMeters, drawWaveform)
\* ------------------------------------------------------------------------
\* the LEDs of one meter (makeDots)
totalDots == 24

Dots == 0..(totalDots - 1)

\* meterMap: the level meters ascend from -36 to 6, the gain reduction meter
\* descends from 0 to -36
LevelMeters == {"inputLevel", "outputLevel"}

ascending(n) == n \in LevelMeters

minDb(n) == IF ascending(n) THEN Dec(-36, 1) ELSE Dec(0, 1)

maxDb(n) == IF ascending(n) THEN Dec(6, 1) ELSE Dec(-36, 1)

rng(n) == Abs(maxDb(n) - minDb(n))

\* an intensity of 1.0
One == Scale

\* dbStep is rng / (total - 1), which is no whole number of units: the levels
\* of the LEDs are kept multiplied by total - 1, where they are exact
dbStepScaled(n) == rng(n)

\* LED levels counted down from the top of the scale on the level meters
dotDbScaled_fromTop(n, i) ==
  IF ascending(n)
  THEN (totalDots - 1) * maxDb(n) - i * dbStepScaled(n)
  ELSE (totalDots - 1) * minDb(n) - i * dbStepScaled(n)

\* (total - 1) * dotDb, the level of LED i
dotDbScaled(n, i) ==
  (totalDots - 1) * minDb(n)
    + (IF ascending(n) THEN i * dbStepScaled(n) ELSE 0 - i * dbStepScaled(n))

\* the value a meter shows: its peak, a gain reduction near zero shown as 0
meterValue(m, n) ==
  IF n = "gainReduction" /\ Abs(m[n].peak) < deadZone THEN 0 ELSE m[n].peak

\* a quotient of two scaled levels as an intensity (dbStep * (total - 1) is a
\* whole number of dB)
overDbStep(x, n) == RoundDiv(x, dbStepScaled(n) \div Scale)

\* a fill across the step above the level of the LED instead of the step
\* below it
fillIntensity_above(n, i, mv) ==
  LET dot  == dotDbScaled(n, i)
      step == dbStepScaled(n)
  IN IF ascending(n)
     THEN LET v == (totalDots - 1) * mv
          IN IF v >= dot + step THEN One
             ELSE IF v < dot THEN 0
             ELSE overDbStep(v - dot, n)
     ELSE LET clampVal == Min(0, mv)
              v == (totalDots - 1) * clampVal
          IN IF clampVal >= 0 - Dec(1, 100) THEN 0
             ELSE IF v <= dot THEN One
             ELSE IF v > dot + step THEN 0
             ELSE overDbStep(dot + step - v, n)

\* a descending fill without the rule that keeps the meter dark at rest
fillIntensity_noRest(n, i, mv) ==
  LET dot  == dotDbScaled(n, i)
      step == dbStepScaled(n)
  IN IF ascending(n)
     THEN LET v == (totalDots - 1) * mv
          IN IF v >= dot THEN One
             ELSE IF v < dot - step THEN 0
             ELSE overDbStep(v - (dot - step), n)
     ELSE LET clampVal == Min(0, mv)
              v == (totalDots - 1) * clampVal
          IN IF v <= dot THEN One
             ELSE IF v > dot + step THEN 0
             ELSE overDbStep(dot + step - v, n)

\* the intensity of LED i of meter n at meter value mv, before the clamp
fillIntensity(n, i, mv) ==
  LET dot  == dotDbScaled(n, i)
      step == dbStepScaled(n)
  IN IF ascending(n)
     THEN LET v == (totalDots - 1) * mv
          IN IF v >= dot THEN One
             ELSE IF v < dot - step THEN 0
             ELSE overDbStep(v - (dot - step), n)
     ELSE LET clampVal == Min(0, mv)
              v == (totalDots - 1) * clampVal
          IN IF clampVal >= 0 - Dec(1, 100) THEN 0
             ELSE IF v <= dot THEN One
             ELSE IF v > dot + step THEN 0
             ELSE overDbStep(dot + step - v, n)

\* an intensity that is the linear fill alone, with no clamp
intensity_linear(n, i, mv) ==
  IF ascending(n)
  THEN overDbStep((totalDots - 1) * mv - (dotDbScaled(n, i) - dbStepScaled(n)), n)
  ELSE overDbStep(dotDbScaled(n, i) + dbStepScaled(n) - (totalDots - 1) * mv, n)

\* the intensity passed to lerpColor: Math.max(0, Math.min(1, intensity))
intensity(n, i, mv) == Clamp(fillIntensity(n, i, mv), 0, One)

\* the colours, as [r, g, b]
offColor == <<51, 51, 51>>

greenColor == <<76, 175, 80>>

yellowColor == <<255, 235, 59>>

redColor == <<255, 82, 82>>

\* an active colour that follows the bands on every meter
activeColor_banded(n, i) ==
  IF dotDbScaled(n, i) < (totalDots - 1) * Dec(-12, 1) THEN greenColor
  ELSE IF dotDbScaled(n, i) < 0 THEN yellowColor
  ELSE redColor

\* the active colour of LED i of meter n
activeColor(n, i) ==
  IF n = "gainReduction" THEN redColor
  ELSE IF dotDbScaled(n, i) < (totalDots - 1) * Dec(-12, 1) THEN greenColor
  ELSE IF dotDbScaled(n, i) < 0 THEN yellowColor
  ELSE redColor

\* cubicEase works on t to three decimals, so that its cubes fit
EaseScale == 10^3

\* an ease whose second half is not halved
cubicEase_whole(t) ==
  LET q == RoundDiv(t * EaseScale, Scale)
      c == IF 2 * q < EaseScale
           THEN 4 * q * q * q
           ELSE EaseScale * EaseScale * EaseScale
                  - (2 * EaseScale - 2 * q) * (2 * EaseScale - 2 * q)
                      * (2 * EaseScale - 2 * q)
  IN RoundDiv(c, (EaseScale * EaseScale * EaseScale) \div Scale)

\* cubicEase(t): 4 t^3 below 0.5, 1 - (-2 t + 2)^3 / 2 from 0.5 on
cubicEase(t) ==
  LET q == RoundDiv(t * EaseScale, Scale)
      c == IF 2 * q < EaseScale
           THEN 4 * q * q * q
           ELSE EaseScale * EaseScale * EaseScale
                  - ((2 * EaseScale - 2 * q) * (2 * EaseScale - 2 * q)
                       * (2 * EaseScale - 2 * q)) \div 2
  IN RoundDiv(c, (EaseScale * EaseScale * EaseScale) \div Scale)

\* a blend that steps away from the active colour
lerpColor_away(off, on, t) ==
  [c \in 1..3 |-> off[c] + RoundDiv((off[c] - on[c]) * cubicEase(t), Scale)]

\* lerpColor: every channel Math.round(off + (on - off) * eased)
lerpColor(off, on, t) ==
  [c \in 1..3 |-> off[c] + RoundDiv((on[c] - off[c]) * cubicEase(t), Scale)]

\* updateMeters: the readout of every meter; its LEDs are lit from the same
\* value
updateMeters(m) ==
  [meterValue |-> [n \in MeterNames |-> meterValue(m, n)], lit |-> TRUE]

\* dbToY(db, height): the scale of the canvas runs from -60 at the bottom to
\* 12 at the top
waveMinDb == Dec(-60, 1)

waveMaxDb == Dec(12, 1)

dbRange == waveMaxDb - waveMinDb

\* a dbToY that maps the level as it comes
dbToY_unclamped(db, height) ==
  RoundDiv(height * (dbRange - (db - waveMinDb)), dbRange \div Scale)

\* height * (1 - norm), norm the clamped level's place on the scale
dbToY(db, height) ==
  LET clamped == Max(waveMinDb, Min(waveMaxDb, db))
  IN RoundDiv(height * (dbRange - (clamped - waveMinDb)), dbRange \div Scale)

\* updateKnobRotation(param, value): the angle given to the knob's element,
\* in degrees times Scale
updateKnobRotation(p, value) ==
  RoundDiv((value - knobMin(p)) * 270, (knobMax(p) - knobMin(p)) \div Scale)
    - 135 * Scale

\* the angle a knob shows: initializeKnobs, paramListener and step 4 of
\* animate each call updateKnobRotation with the currentValue they have just
\* written, and nothing else writes currentValue or the angle
knobRotation(ks, p) == updateKnobRotation(p, ks[p].currentValue)

\* the canvas before the first drawWaveform, and after its size is set anew
blankCanvas == [drawn |-> FALSE, thresholdDb |-> 0, bars |-> <<>>]

\* a drawWaveform that draws the bars of the history the frame started with
drawWaveform_stale(thr, h) ==
  [drawn |-> TRUE, thresholdDb |-> thr,
   bars |-> [i \in 1..Len(waveformHistory) |-> waveformHistory[i].inputLevel]]

\* drawWaveform: one bar per history sample, at its input level, and the
\* threshold line
drawWaveform(thr, h) ==
  [drawn |-> TRUE, thresholdDb |-> thr,
   bars |-> [i \in 1..Len(h) |-> h[i].inputLevel]]

\* the page as getHTML builds it: the readouts of the markup, no LED lit, the
\* canvas blank
getHTML ==
  [meterValue |-> [n \in MeterNames |-> IF ascending(n) THEN Dec(-36, 1) ELSE 0],
   lit        |-> FALSE,
   waveform   |-> blankCanvas]

\* the intensity LED i of meter n shows on the page r: updateMeters lights
\* every LED from the meter value it writes to the readout
led(r, n, i) == IF r.lit THEN intensity(n, i, r.meterValue[n]) ELSE 0

\* the background LED i of meter n shows on the page r
dotColor(r, n, i) == lerpColor(offColor, activeColor(n, i), led(r, n, i))

\* ------------------------------------------------------------------------
\* Construction
\* ------------------------------------------------------------------------
\* initializeKnobs: every knob from its element's data attributes
initializeKnobs ==
  [p \in Params |->
     [currentValue |-> knobInit(p), targetValue |-> knobInit(p),
      isDragging |-> FALSE, lastY |-> 0]]

Init ==
  /\ variant \in Variants
  /\ connected = FALSE
  /\ knobs = initializeKnobs
  /\ meters = [gainReduction |-> [value |-> 0, peak |-> 0],
               inputLevel    |-> [value |-> Dec(-36, 1), peak |-> Dec(-36, 1)],
               outputLevel   |-> [value |-> Dec(-36, 1), peak |-> Dec(-36, 1)]]
  /\ waveformHistory = <<>>
  /\ frameCount = 0
  /\ historyUpdateRate = 1
  /\ rendered = getHTML
  /\ pushed = <<>>
  /\ currentThresholdDb = Dec(-28, 1)
  /\ animationFrameRequest = 0
  /\ pendingFrames = {}
  /\ listeners = [k \in ListenerKinds |-> 0]
  /\ toggles = [t \in Toggles |-> FALSE]
  /\ saturationLed = FALSE
  /\ sent = <<>>
  /\ last = Step("constructor", "", 0)
  /\ eventsLeft = MaxEvents
  /\ startsLeft = MaxStarts
  /\ ticksLeft = MaxTicks

\* an ingestion event may still arrive
EventBudget == eventsLeft > 0

\* a frame budget that never runs out
NoLimit == 0 - 1

\* requestAnimationFrame: a handle the browser has not handed out and the
\* element does not hold (real handles only ever grow)
FreshFrame(held) ==
  CHOOSE id \in 1..(Cardinality(held) + 2) :
    id \notin held /\ id # animationFrameRequest

\* ------------------------------------------------------------------------
\* connectedCallback / disconnectedCallback
\* ------------------------------------------------------------------------
\* connectedCallback registers one more handler of every kind:
\* setupPatchListeners, setupKnobDragEvents and the toggle click handlers
addListeners(ls) == [k \in ListenerKinds |-> ls[k] + 1]

\* disconnectedCallback removes the parameter listener and the three meter
\* listeners; the handlers of the other kinds stay registered
removeListeners(ls) ==
  [k \in ListenerKinds |->
     IF k \in {"param"} \cup MeterEndpoints THEN Max(0, ls[k] - 1) ELSE ls[k]]

\* a disconnectedCallback that leaves the frame request pending
cancelAnimationFrame_skipped(held, handle) == held

\* a disconnectedCallback that cancels the first handle, animate not having
\* stored the later ones
cancelAnimationFrame_stale(held, handle) == held \ {1}

\* cancelAnimationFrame(handle), guarded by if (this.animationFrameRequest)
cancelAnimationFrame(held, handle) ==
  IF handle # 0 THEN held \ {handle} ELSE held

connectedCallback ==
  /\ ~connected
  /\ startsLeft > 0
  /\ connected' = TRUE
  /\ knobs' = initializeKnobs
  /\ listeners' = addListeners(listeners)
  /\ LET id == FreshFrame(pendingFrames)
     IN /\ animationFrameRequest' = id
        /\ pendingFrames' = pendingFrames \cup {id}
  /\ sent' = <<>>
  /\ rendered' = [rendered EXCEPT !.waveform = blankCanvas]
  /\ last' = Step("connectedCallback", "", 0)
  /\ startsLeft' = startsLeft - 1
  /\ UNCHANGED <<variant, historyUpdateRate, pushed,
                 meters, waveformHistory, frameCount,
                 currentThresholdDb, toggles, saturationLed, eventsLeft, ticksLeft>>

disconnectedCallback ==
  /\ connected
  /\ connected' = FALSE
  /\ pendingFrames' = cancelAnimationFrame(pendingFrames, animationFrameRequest)
  /\ listeners' = removeListeners(listeners)
  /\ sent' = <<>>
  /\ last' = Step("disconnectedCallback", "", 0)
  /\ UNCHANGED <<variant, historyUpdateRate, rendered, pushed,
                 knobs, meters, waveformHistory, frameCount,
                 currentThresholdDb, animationFrameRequest, toggles,
                 saturationLed, eventsLeft, startsLeft, ticksLeft>>

\* ------------------------------------------------------------------------
\* Host events (setupPatchListeners)
\* ------------------------------------------------------------------------
\* what paramListener writes to the knob of a known key
paramListenerKnob(k, value) ==
  [k EXCEPT !.targetValue = value, !.currentValue = value]

\* a parameter listener that moves the threshold line to every value echoed,
\* before it looks the knob up
paramListener_lineFirst(key, value) ==
  /\ EventBudget
  /\ LET heard == listeners["param"] > 0 /\ key \in Params
     IN /\ knobs' = IF heard
                    THEN [knobs EXCEPT ![key] = paramListenerKnob(@, value)]
                    ELSE knobs
        /\ currentThresholdDb' =
             IF listeners["param"] > 0 THEN value ELSE currentThresholdDb
        /\ rendered' =
             IF listeners["param"] > 0
             THEN [rendered EXCEPT !.waveform = drawWaveform(value, waveformHistory)]
             ELSE rendered
  /\ sent' = <<>>
  /\ last' = Step("paramListener", key, value)
  /\ eventsLeft' = eventsLeft - 1
  /\ UNCHANGED <<variant, historyUpdateRate, pushed,
                 connected, meters, waveformHistory, frameCount,
                 animationFrameRequest, pendingFrames, listeners, toggles,
                 saturationLed, startsLeft, ticksLeft>>

\* the host echoes parameter key with value
paramListener(key, value) ==
  /\ EventBudget
  /\ LET heard == listeners["param"] > 0 /\ key \in Params
     IN /\ knobs' = IF heard
                    THEN [knobs EXCEPT ![key] = paramListenerKnob(@, value)]
                    ELSE knobs
        /\ currentThresholdDb' =
             IF heard /\ key = "thresholdDbIn" THEN value ELSE currentThresholdDb
        /\ rendered' =
             IF heard /\ key = "thresholdDbIn"
             THEN [rendered EXCEPT !.waveform = drawWaveform(value, waveformHistory)]
             ELSE rendered
  /\ sent' = <<>>
  /\ last' = Step("paramListener", key, value)
  /\ eventsLeft' = eventsLeft - 1
  /\ UNCHANGED <<variant, historyUpdateRate, pushed,
                 connected, meters, waveformHistory, frameCount,
                 animationFrameRequest, pendingFrames, listeners, toggles,
                 saturationLed, startsLeft, ticksLeft>>

\* a meter listener that smooths at ingress: it writes the peak as well
meterListenerWrite_peak(m, e, value) ==
  [m EXCEPT ![meterOf(e)] = [value |-> value, peak |-> value]]

\* a meter listener that drops the sample
meterListenerWrite_dropped(m, e, value) == m

\* what a meter listener writes
meterListenerWrite(m, e, value) == [m EXCEPT ![meterOf(e)].value = value]

\* the host reports a value on meter endpoint e
meterListener(e, value) ==
  /\ EventBudget
  /\ meters' = IF listeners[e] > 0 THEN meterListenerWrite(meters, e, value)
               ELSE meters
  /\ sent' = <<>>
  /\ last' = Step("meterListener", e, value)
  /\ eventsLeft' = eventsLeft - 1
  /\ UNCHANGED <<variant, historyUpdateRate, rendered, pushed,
                 connected, knobs, waveformHistory, frameCount,
                 currentThresholdDb, animationFrameRequest, pendingFrames,
                 listeners, toggles, saturationLed, startsLeft, ticksLeft>>

\* the host reports the state b of toggle t
toggleListener(t, b) ==
  /\ EventBudget
  /\ toggles' = IF listeners[t] > 0 THEN [toggles EXCEPT ![t] = b] ELSE toggles
  /\ sent' = <<>>
  /\ last' = Step("toggleListener", t, 0)
  /\ eventsLeft' = eventsLeft - 1
  /\ UNCHANGED <<variant, historyUpdateRate, rendered, pushed,
                 connected, knobs, meters, waveformHistory, frameCount,
                 currentThresholdDb, animationFrameRequest, pendingFrames,
                 listeners, saturationLed, startsLeft, ticksLeft>>

\* a saturation LED that needs more than the threshold
saturationLedOn_above(value) == value > ledThreshold

\* whether the postSatMeter listener gives #saturationLed the class "on"
saturationLedOn(value) == value >= ledThreshold

\* the host reports a value on postSatMeter
postSatMeterListener(value) ==
  /\ EventBudget
  /\ saturationLed' = IF listeners["postSatMeter"] > 0
                      THEN saturationLedOn(value)
                      ELSE saturationLed
  /\ sent' = <<>>
  /\ last' = Step("postSatMeterListener", "postSatMeter", value)
  /\ eventsLeft' = eventsLeft - 1
  /\ UNCHANGED <<variant, historyUpdateRate, rendered, pushed,
                 connected, knobs, meters, waveformHistory, frameCount,
                 currentThresholdDb, animationFrameRequest, pendingFrames,
                 listeners, toggles, startsLeft, ticksLeft>>

\* ------------------------------------------------------------------------
\* Toggle buttons and knob gestures (DOM handlers)
\* ------------------------------------------------------------------------
\* the sendEventOrValue calls of n click handlers on a toggle now in state b:
\* every handler reads the class, flips it and sends the new state
clickSends(t, b, n) ==
  [i \in 1..n |-> Msg(t, IF i % 2 = 1 THEN ~b ELSE b)]

\* a click on toggle button t (a button of the connected element)
toggleClick(t) ==
  /\ EventBudget
  /\ connected
  /\ toggles' = [toggles EXCEPT
                   ![t] = IF listeners["click"] % 2 = 1 THEN ~@ ELSE @]
  /\ sent' = clickSends(t, toggles[t], listeners["click"])
  /\ last' = Step("toggleClick", t, 0)
  /\ eventsLeft' = eventsLeft - 1
  /\ UNCHANGED <<variant, historyUpdateRate, rendered, pushed,
                 connected, knobs, meters, waveformHistory, frameCount,
                 currentThresholdDb, animationFrameRequest, pendingFrames,
                 listeners, saturationLed, startsLeft, ticksLeft>>

\* startKnobDrag / startKnobTouch on one knob
startKnob(k, y) == [k EXCEPT !.isDragging = TRUE, !.lastY = y]

\* mousedown (startKnobDrag) or touchstart (startKnobTouch, which writes the
\* same two fields) on the knob element of p, the pointer at clientY y
\* (a knob element takes pointer input only while it is in the document)
startKnobDrag(p, y) ==
  /\ EventBudget
  /\ connected
  /\ knobs' = IF listeners["drag"] > 0
              THEN [knobs EXCEPT ![p] = startKnob(@, y)] ELSE knobs
  /\ sent' = <<>>
  /\ last' = Step("startKnobDrag", p, 0)
  /\ eventsLeft' = eventsLeft - 1
  /\ UNCHANGED <<variant, historyUpdateRate, rendered, pushed,
                 connected, meters, waveformHistory, frameCount,
                 currentThresholdDb, animationFrameRequest, pendingFrames,
                 listeners, toggles, saturationLed, startsLeft, ticksLeft>>

\* (deltaY * sensitivity * range) / 100.  A knob's range is a whole number,
\* so range / 100 is a whole number of units and is taken first, which keeps
\* the product small.
knobChange(p, deltaY, v) ==
  RoundDiv(deltaY * sensitivityNum(v) * ((knobMax(p) - knobMin(p)) \div 100),
           sensitivityDen)

\* an adjustKnobValue that snaps the rendered value to the new target
adjustKnobValue_snap(k, p, deltaY, v) ==
  LET t == Clamp(k.targetValue - knobChange(p, deltaY, v), knobMin(p), knobMax(p))
  IN [k EXCEPT !.targetValue = t, !.currentValue = t]

\* adjustKnobValue on the knob of p
adjustKnobValue(k, p, deltaY, v) ==
  [k EXCEPT !.targetValue =
     Clamp(k.targetValue - knobChange(p, deltaY, v), knobMin(p), knobMax(p))]

\* a move handler that moves every knob, gesture or not
handleKnobMove_all(ks, y, v) ==
  [p \in Params |->
     adjustKnobValue([ks[p] EXCEPT !.lastY = y], p, y - ks[p].lastY, v)]

\* a move handler that leaves lastY where the gesture started
handleKnobMove_keepsY(ks, y, v) ==
  [p \in Params |->
     IF ks[p].isDragging
     THEN adjustKnobValue(ks[p], p, y - ks[p].lastY, v)
     ELSE ks[p]]

\* one run of handleKnobDrag / handleKnobTouch with the pointer at clientY y
handleKnobMove(ks, y, v) ==
  [p \in Params |->
     IF ks[p].isDragging
     THEN adjustKnobValue([ks[p] EXCEPT !.lastY = y], p, y - ks[p].lastY, v)
     ELSE ks[p]]

\* the n registered move handlers, one after the other
RECURSIVE handleKnobMoves(_, _, _, _)
handleKnobMoves(n, ks, y, v) ==
  IF n = 0 THEN ks ELSE handleKnobMoves(n - 1, handleKnobMove(ks, y, v), y, v)

\* a move handler that notifies the host of every dragged knob itself
handleKnobDrag_notifies(y) ==
  /\ EventBudget
  /\ knobs' = handleKnobMoves(listeners["drag"], knobs, y, variant)
  /\ sent' = [i \in 1..Len(ParamOrder) |->
               Msg(ParamOrder[i], knobs'[ParamOrder[i]].targetValue)]
  /\ last' = Step("handleKnobDrag", "", y)
  /\ eventsLeft' = eventsLeft - 1
  /\ UNCHANGED <<variant, historyUpdateRate, rendered, pushed,
                 connected, meters, waveformHistory, frameCount,
                 currentThresholdDb, animationFrameRequest, pendingFrames,
                 listeners, toggles, saturationLed, startsLeft, ticksLeft>>

\* mousemove (handleKnobDrag) or touchmove (handleKnobTouch, the same loop
\* for an event with a touch) on the document, the pointer at clientY y
handleKnobDrag(y) ==
  /\ EventBudget
  /\ knobs' = handleKnobMoves(listeners["drag"], knobs, y, variant)
  /\ sent' = <<>>
  /\ last' = Step("handleKnobDrag", "", y)
  /\ eventsLeft' = eventsLeft - 1
  /\ UNCHANGED <<variant, historyUpdateRate, rendered, pushed,
                 connected, meters, waveformHistory, frameCount,
                 currentThresholdDb, animationFrameRequest, pendingFrames,
                 listeners, toggles, saturationLed, startsLeft, ticksLeft>>

\* what stopKnobDrag writes
stopKnobs(ks) == [p \in Params |-> [ks[p] EXCEPT !.isDragging = FALSE]]

\* mouseup / touchend on the document
stopKnobDrag ==
  /\ EventBudget
  /\ knobs' = IF listeners["drag"] > 0 THEN stopKnobs(knobs) ELSE knobs
  /\ sent' = <<>>
  /\ last' = Step("stopKnobDrag", "", 0)
  /\ eventsLeft' = eventsLeft - 1
  /\ UNCHANGED <<variant, historyUpdateRate, rendered, pushed,
                 connected, meters, waveformHistory, frameCount,
                 currentThresholdDb, animationFrameRequest, pendingFrames,
                 listeners, toggles, saturationLed, startsLeft, ticksLeft>>

\* ------------------------------------------------------------------------
\* animate: one frame
\* ------------------------------------------------------------------------
\* a silence floor that clears the peak and keeps the raw value
animateSilence_peakOnly(m) ==
  IF m.inputLevel.value < silenceFloor
  THEN [m EXCEPT !.gainReduction.peak = 0]
  ELSE m

\* 1) silence floor on the gain reduction meter
animateSilence(m) ==
  IF m.inputLevel.value < silenceFloor
  THEN [m EXCEPT !.gainReduction = [value |-> 0, peak |-> 0]]
  ELSE m

\* a decay that is not held up by the raw value
decayPeak_noFloor(mt) ==
  [mt EXCEPT !.peak = IF mt.value > mt.peak THEN mt.value ELSE mt.peak - decayRate]

\* a peak that is held
decayPeak_held(mt) == [mt EXCEPT !.peak = Max(mt.value, mt.peak)]

\* 2) peak decay of one level meter
decayPeak(mt) == [mt EXCEPT !.peak = Max(mt.value, mt.peak - decayRate)]

\* a gain reduction peak that decays like a level peak outside the dead zone
animateDeadZone_decay(mt) ==
  IF Abs(mt.value) < deadZone
  THEN [value |-> 0, peak |-> 0]
  ELSE [mt EXCEPT !.peak = Max(mt.value, mt.peak - decayRate)]

\* a gain reduction peak left as it was outside the dead zone
animateDeadZone_stale(mt) ==
  IF Abs(mt.value) < deadZone
  THEN [value |-> 0, peak |-> 0]
  ELSE mt

\* 3) dead zone of the gain reduction meter
animateDeadZone(mt) ==
  IF Abs(mt.value) < deadZone
  THEN [value |-> 0, peak |-> 0]
  ELSE [mt EXCEPT !.peak = mt.value]

\* meter steps whose level peaks fall whatever the raw value
animateMeters_free(m) ==
  LET m1 == animateSilence(m)
      m2 == [m1 EXCEPT !.inputLevel.peak = @ - decayRate,
                       !.outputLevel.peak = @ - decayRate]
  IN [m2 EXCEPT !.gainReduction = animateDeadZone(@)]

\* steps 1 to 3 of animate
animateMeters(m) ==
  LET m1 == animateSilence(m)
      m2 == [m1 EXCEPT !.inputLevel = decayPeak(@),
                       !.outputLevel = decayPeak(@)]
  IN [m2 EXCEPT !.gainReduction = animateDeadZone(@)]

\* a smoothing test without the threshold
knobMoves_noThreshold(k) == k.targetValue # k.currentValue

\* the knob is still on its way: Math.abs(diff) > 0.0001
knobMoves(k) == Abs(k.targetValue - k.currentValue) > Epsilon

\* diff * factor
smoothStep(diff, v) == RoundDiv(diff * smoothingNum(v), smoothingDen)

\* 4) smoothing of one knob
smoothKnob(k, v) ==
  IF knobMoves(k)
  THEN [k EXCEPT !.currentValue =
          k.currentValue + smoothStep(k.targetValue - k.currentValue, v)]
  ELSE k

\* an animate that sends the value before it updates it
animateSends_stale(ks, v) ==
  LET F[i \in 0..Len(ParamOrder)] ==
        IF i = 0 THEN <<>>
        ELSE IF knobMoves(ks[ParamOrder[i]])
             THEN Append(F[i - 1],
                         Msg(ParamOrder[i], ks[ParamOrder[i]].currentValue))
             ELSE F[i - 1]
  IN F[Len(ParamOrder)]

\* the sendEventOrValue calls of step 4: one per moving knob, in key order
animateSends(ks, v) ==
  LET F[i \in 0..Len(ParamOrder)] ==
        IF i = 0 THEN <<>>
        ELSE IF knobMoves(ks[ParamOrder[i]])
             THEN Append(F[i - 1],
                         Msg(ParamOrder[i],
                             smoothKnob(ks[ParamOrder[i]], v).currentValue))
             ELSE F[i - 1]
  IN F[Len(ParamOrder)]

\* a sample of the peaks
historySample_peaks(m) ==
  [inputLevel    |-> m.inputLevel.peak,
   gainReduction |-> m.gainReduction.peak,
   outputLevel   |-> m.outputLevel.peak]

\* the sample a frame pushes: the raw values of the three meters
historySample(m) ==
  [inputLevel    |-> m.inputLevel.value,
   gainReduction |-> m.gainReduction.value,
   outputLevel   |-> m.outputLevel.value]

\* a history that drops the sample pushed when it is full
pushHistory_keepOldest(h, m) ==
  IF Len(h) >= historyLength THEN h ELSE Append(h, historySample(m))

\* 5) the history after a push: the oldest sample shifted out of a history
\* longer than historyLength
pushHistory(h, m) ==
  LET h1 == Append(h, historySample(m))
  IN IF Len(h1) > historyLength THEN Tail(h1) ELSE h1

\* a sub-rate test that lets one more frame pass
historyDue_late(count, rate) == count > rate

\* the test of step 5 on the incremented frame counter
historyDue(count, rate) == count >= rate

\* the frame callback of a pending request runs animate
animate ==
  /\ ticksLeft # 0
  /\ \E id \in pendingFrames :
    LET held == pendingFrames \ {id}
        m    == animateMeters(meters)
        thr  == IF knobMoves(knobs["thresholdDbIn"])
                THEN smoothKnob(knobs["thresholdDbIn"], variant).currentValue
                ELSE currentThresholdDb
        due  == historyDue(frameCount + 1, historyUpdateRate)
        h    == IF due THEN pushHistory(waveformHistory, m) ELSE waveformHistory
        next == FreshFrame(held)
    IN /\ meters' = m
       /\ knobs' = [p \in Params |-> smoothKnob(knobs[p], variant)]
       /\ sent' = animateSends(knobs, variant)
       /\ currentThresholdDb' = thr
       /\ frameCount' = IF due THEN 0 ELSE frameCount + 1
       /\ waveformHistory' = h
       /\ pushed' = IF due /\ ticksLeft > 0
                    THEN Append(pushed, historySample(m)) ELSE pushed
       /\ rendered' = [meterValue |-> updateMeters(m).meterValue,
                       lit        |-> updateMeters(m).lit,
                       waveform   |-> drawWaveform(thr, h)]
       /\ animationFrameRequest' = next
       /\ pendingFrames' = held \cup {next}
       /\ last' = Step("animate", "", 0)
       /\ ticksLeft' = IF ticksLeft > 0 THEN ticksLeft - 1 ELSE ticksLeft
       /\ UNCHANGED <<variant, historyUpdateRate, connected, listeners, toggles,
                      saturationLed, eventsLeft, startsLeft>>

\* ------------------------------------------------------------------------
\* Specification
\* ------------------------------------------------------------------------
Next ==
  \/ connectedCallback
  \/ disconnectedCallback
  \/ \E key \in EchoKeys, value \in EchoValues : paramListener(key, value)
  \/ \E e \in MeterEndpoints : \E value \in SampleValues(e) : meterListener(e, value)
  \/ \E t \in Toggles, b \in BOOLEAN : toggleListener(t, b)
  \/ \E value \in PostSatValues : postSatMeterListener(value)
  \/ \E t \in Toggles : toggleClick(t)
  \/ \E p \in Params, y \in ClientYs : startKnobDrag(p, y)
  \/ \E y \in ClientYs : handleKnobDrag(y)
  \/ stopKnobDrag
  \/ animate

Spec == Init /\ [][Next]_vars

\* One more ingestion event, explored over fewer restarts and frames.
DeepInit ==
  /\ variant \in Variants
  /\ connected = FALSE
  /\ knobs = initializeKnobs
  /\ meters = [gainReduction |-> [value |-> 0, peak |-> 0],
               inputLevel    |-> [value |-> Dec(-36, 1), peak |-> Dec(-36, 1)],
               outputLevel   |-> [value |-> Dec(-36, 1), peak |-> Dec(-36, 1)]]
  /\ waveformHistory = <<>>
  /\ frameCount = 0
  /\ historyUpdateRate = 1
  /\ rendered = getHTML
  /\ pushed = <<>>
  /\ currentThresholdDb = Dec(-28, 1)
  /\ animationFrameRequest = 0
  /\ pendingFrames = {}
  /\ listeners = [k \in ListenerKinds |-> 0]
  /\ toggles = [t \in Toggles |-> FALSE]
  /\ saturationLed = FALSE
  /\ sent = <<>>
  /\ last = Step("constructor", "", 0)
  /\ eventsLeft = MaxEvents + 1
  /\ startsLeft = MaxStarts - 1
  /\ ticksLeft = MaxTicks - 2

DeepSpec == DeepInit /\ [][Next]_vars

\* The quiet engine: connected, no ingestion event arriving, frames running
\* for as long as a request is pending.  Every knob starts from a rendered
\* value and a target the program can hold: a rendered value is any value a
\* host echo has stored, a target is within the range unless the same echo
\* stored it.
QuietCurrents(p) == {knobMin(p), knobInit(p), knobMax(p), Dec(5, 1)}

QuietTargets(p) == {knobMin(p), knobInit(p), knobMax(p), Dec(10, 1)}

QuietKnobs ==
  {ks \in [Params -> [currentValue : UNION {QuietCurrents(p) : p \in Params},
                      targetValue  : UNION {QuietTargets(p) : p \in Params},
                      isDragging   : {FALSE},
                      lastY        : {0}]] :
     \A p \in Params :
       /\ ks[p].currentValue \in QuietCurrents(p)
       /\ ks[p].targetValue \in QuietTargets(p)
       /\ \/ ks[p].targetValue = ks[p].currentValue
          \/ ks[p].targetValue \in knobMin(p)..knobMax(p)}

QuietInit ==
  /\ variant \in Variants
  /\ connected = TRUE
  /\ knobs \in QuietKnobs
  /\ meters = [gainReduction |-> [value |-> 0, peak |-> 0],
               inputLevel    |-> [value |-> Dec(-36, 1), peak |-> Dec(-36, 1)],
               outputLevel   |-> [value |-> Dec(-36, 1), peak |-> Dec(-36, 1)]]
  /\ waveformHistory = <<>>
  /\ frameCount = 0
  /\ historyUpdateRate = 1
  /\ rendered = getHTML
  /\ pushed = <<>>
  /\ currentThresholdDb = knobs["thresholdDbIn"].currentValue
  /\ animationFrameRequest = 1
  /\ pendingFrames = {1}
  /\ listeners = [k \in ListenerKinds |-> 1]
  /\ toggles = [t \in Toggles |-> FALSE]
  /\ saturationLed = FALSE
  /\ sent = <<>>
  /\ last = Step("idle", "", 0)
  /\ eventsLeft = 0
  /\ startsLeft = MaxStarts - 1
  /\ ticksLeft = NoLimit

QuietNext ==
  \/ animate
  \/ disconnectedCallback
  \/ connectedCallback

\* The browser runs the callback of a pending frame request.
QuietSpec == QuietInit /\ [][QuietNext]_vars /\ WF_vars(animate)

\* The history at a sub-rate: the element connected, frames running,
\* historyUpdateRate set to any rate explored (the constructor sets 1, the
\* field is the element's to configure), meter samples arriving between the
\* frames, and frames enough to push five samples more than the history holds.
HistoryTicks == historyLength + 5

HistoryInit ==
  /\ variant \in Variants
  /\ connected = TRUE
  /\ knobs = initializeKnobs
  /\ meters = [gainReduction |-> [value |-> 0, peak |-> 0],
               inputLevel    |-> [value |-> Dec(-36, 1), peak |-> Dec(-36, 1)],
               outputLevel   |-> [value |-> Dec(-36, 1), peak |-> Dec(-36, 1)]]
  /\ waveformHistory = <<>>
  /\ frameCount = 0
  /\ historyUpdateRate \in 1..MaxRate
  /\ rendered = getHTML
  /\ pushed = <<>>
  /\ currentThresholdDb = Dec(-28, 1)
  /\ animationFrameRequest = 1
  /\ pendingFrames = {1}
  /\ listeners = [k \in ListenerKinds |-> 1]
  /\ toggles = [t \in Toggles |-> FALSE]
  /\ saturationLed = FALSE
  /\ sent = <<>>
  /\ last = Step("idle", "", 0)
  /\ eventsLeft = MaxEvents
  /\ startsLeft = MaxStarts - 1
  /\ ticksLeft = HistoryTicks

HistoryNext ==
  \/ animate
  \/ \E e \in MeterEndpoints : \E value \in SampleValues(e) : meterListener(e, value)
  \/ disconnectedCallback
  \/ connectedCallback

HistorySpec == HistoryInit /\ [][HistoryNext]_vars

\* The meters over their whole scale: the element connected, frames running,
\* each meter holding a raw value the host has sent, below, on, between and
\* above the levels of its LEDs; one more sample may arrive.  No knob moves,
\* and the two variants render the meters alike: one variant is explored.
MeterGrid(n) ==
  IF n = "inputLevel"
  THEN {Dec(-60, 1), Dec(-36, 1), Dec(-35, 1), Dec(-203, 10), Dec(-10, 1),
        Dec(0, 1), Dec(9, 1)}
  ELSE IF n = "outputLevel"
  THEN {Dec(-60, 1), Dec(-203, 10), Dec(6, 1)}
  ELSE {Dec(-40, 1), Dec(-36, 1), Dec(-183, 10), Dec(-6, 1), Dec(-4, 100),
        Dec(3, 100), Dec(3, 1)}

LedInit ==
  /\ variant = "compui"
  /\ connected = TRUE
  /\ knobs = initializeKnobs
  /\ \E g \in MeterGrid("gainReduction"), i \in MeterGrid("inputLevel"),
        o \in MeterGrid("outputLevel") :
       meters = [gainReduction |-> [value |-> g, peak |-> 0],
                 inputLevel    |-> [value |-> i, peak |-> Dec(-36, 1)],
                 outputLevel   |-> [value |-> o, peak |-> Dec(-36, 1)]]
  /\ waveformHistory = <<>>
  /\ frameCount = 0
  /\ historyUpdateRate = 1
  /\ rendered = getHTML
  /\ pushed = <<>>
  /\ currentThresholdDb = Dec(-28, 1)
  /\ animationFrameRequest = 1
  /\ pendingFrames = {1}
  /\ listeners = [k \in ListenerKinds |-> 1]
  /\ toggles = [t \in Toggles |-> FALSE]
  /\ saturationLed = FALSE
  /\ sent = <<>>
  /\ last = Step("idle", "", 0)
  /\ eventsLeft = 1
  /\ startsLeft = 0
  /\ ticksLeft = MaxTicks

LedNext ==
  \/ animate
  \/ \E e \in MeterEndpoints : \E value \in SampleValues(e) : meterListener(e, value)
  \/ disconnectedCallback

LedSpec == LedInit /\ [][LedNext]_vars

\* The helpers on their own: cubicEase, lerpColor and dbToY applied to
\* arguments over their whole domains, the element as constructed, one call
\* a behaviour.  The step records the arguments as its key and the result as
\* its value.
EaseInputs == {(k * Scale) \div EaseSteps : k \in 0..EaseSteps}

ChannelValues == {0, 51, 255}

Colors ==
  [1..3 -> ChannelValues] \cup {offColor, greenColor, yellowColor, redColor}

BlendFactors == {0, Dec(1, 4), Dec(1, 2), Dec(9, 10), One}

DbValues ==
  {Dec(-70, 1), Dec(-60, 1), Dec(-28, 1), Dec(0, 1), Dec(12, 1), Dec(20, 1)}

HeightValues == {0, 150, 200}

HelperInit ==
  /\ variant \in Variants
  /\ connected = FALSE
  /\ knobs = initializeKnobs
  /\ meters = [gainReduction |-> [value |-> 0, peak |-> 0],
               inputLevel    |-> [value |-> Dec(-36, 1), peak |-> Dec(-36, 1)],
               outputLevel   |-> [value |-> Dec(-36, 1), peak |-> Dec(-36, 1)]]
  /\ waveformHistory = <<>>
  /\ frameCount = 0
  /\ historyUpdateRate = 1
  /\ rendered = getHTML
  /\ pushed = <<>>
  /\ currentThresholdDb = Dec(-28, 1)
  /\ animationFrameRequest = 0
  /\ pendingFrames = {}
  /\ listeners = [k \in ListenerKinds |-> 0]
  /\ toggles = [t \in Toggles |-> FALSE]
  /\ saturationLed = FALSE
  /\ sent = <<>>
  /\ last = Step("constructor", "", 0)
  /\ eventsLeft = 1
  /\ startsLeft = 0
  /\ ticksLeft = 0

helperVars ==
  <<variant, connected, knobs, meters, waveformHistory, frameCount,
    historyUpdateRate, currentThresholdDb, animationFrameRequest,
    pendingFrames, listeners, toggles, saturationLed, sent, rendered,
    pushed, startsLeft, ticksLeft>>

cubicEaseCall(t) ==
  /\ EventBudget
  /\ eventsLeft' = eventsLeft - 1
  /\ last' = Step("cubicEase", t, cubicEase(t))
  /\ UNCHANGED helperVars

lerpColorCall(off, on, t) ==
  /\ EventBudget
  /\ eventsLeft' = eventsLeft - 1
  /\ last' = Step("lerpColor", [off |-> off, on |-> on, t |-> t],
                  lerpColor(off, on, t))
  /\ UNCHANGED helperVars

dbToYCall(db, height) ==
  /\ EventBudget
  /\ eventsLeft' = eventsLeft - 1
  /\ last' = Step("dbToY", [db |-> db, height |-> height], dbToY(db, height))
  /\ UNCHANGED helperVars

HelperNext ==
  \/ \E t \in EaseInputs : cubicEaseCall(t)
  \/ \E off \in Colors, on \in Colors, t \in BlendFactors : lerpColorCall(off, on, t)
  \/ \E db \in DbValues, height \in HeightValues : dbToYCall(db, height)

HelperSpec == HelperInit /\ [][HelperNext]_vars

\* Decay: the element connected, frames running for as long as a request is
\* pending, and no host event arriving.  Each level meter holds a raw value
\* below its peak: on the input meter a sample that arrived at the
\* constructed meter (peak -36), on the output meter a sample 0.3 below a peak
\* the frames had brought to it.
DecayRaws == {Dec(-60, 1), Dec(-382, 10)}

DecayInputs == {[value |-> r, peak |-> Dec(-36, 1)] : r \in DecayRaws}

DecayOutputs == {[value |-> r, peak |-> r + Dec(3, 10)] : r \in DecayRaws}

DecayInit ==
  /\ variant \in Variants
  /\ connected = TRUE
  /\ knobs = initializeKnobs
  /\ \E i \in DecayInputs, o \in DecayOutputs :
       meters = [gainReduction |-> [value |-> 0, peak |-> 0],
                 inputLevel    |-> i,
                 outputLevel   |-> o]
  /\ waveformHistory = <<>>
  /\ frameCount = 0
  /\ historyUpdateRate = 1
  /\ rendered = getHTML
  /\ pushed = <<>>
  /\ currentThresholdDb = Dec(-28, 1)
  /\ animationFrameRequest = 1
  /\ pendingFrames = {1}
  /\ listeners = [k \in ListenerKinds |-> 1]
  /\ toggles = [t \in Toggles |-> FALSE]
  /\ saturationLed = FALSE
  /\ sent = <<>>
  /\ last = Step("meterListener", "inputMeter", meters.inputLevel.value)
  /\ eventsLeft = 0
  /\ startsLeft = MaxStarts - 1
  /\ ticksLeft = NoLimit

\* The browser runs the callback of a pending frame request.
DecaySpec == DecayInit /\ [][QuietNext]_vars /\ WF_vars(animate)

\* The host round trip: the element connected, frames running, and a gesture
\* over: a mousedown on one knob at clientY 0, a move to clientY 60 and a
\* mouseup have left that knob's targetValue one delta of 60 pixels below its
\* initial value.  Between the frames the host may echo a value the last
\* frame sent back to the parameter listener.
GestureTarget(p, v) ==
  adjustKnobValue(initializeKnobs[p], p, 60, v).targetValue

EchoInit ==
  /\ variant \in Variants
  /\ connected = TRUE
  /\ \E p \in Params :
       knobs = [initializeKnobs EXCEPT
                  ![p] = [currentValue |-> knobInit(p),
                          targetValue  |-> GestureTarget(p, variant),
                          isDragging   |-> FALSE,
                          lastY        |-> 60]]
  /\ meters = [gainReduction |-> [value |-> 0, peak |-> 0],
               inputLevel    |-> [value |-> Dec(-36, 1), peak |-> Dec(-36, 1)],
               outputLevel   |-> [value |-> Dec(-36, 1), peak |-> Dec(-36, 1)]]
  /\ waveformHistory = <<>>
  /\ frameCount = 0
  /\ historyUpdateRate = 1
  /\ rendered = getHTML
  /\ pushed = <<>>
  /\ currentThresholdDb = Dec(-28, 1)
  /\ animationFrameRequest = 1
  /\ pendingFrames = {1}
  /\ listeners = [k \in ListenerKinds |-> 1]
  /\ toggles = [t \in Toggles |-> FALSE]
  /\ saturationLed = FALSE
  /\ sent = <<>>
  /\ last = Step("stopKnobDrag", "", 0)
  /\ eventsLeft = MaxEvents
  /\ startsLeft = 0
  /\ ticksLeft = NoLimit

\* the host reports a parameter change the last frame sent to it
hostEcho ==
  /\ last.op = "animate"
  /\ \E i \in 1..Len(sent) : paramListener(sent[i].param, sent[i].value)

EchoNext ==
  \/ animate
  \/ hostEcho

EchoSpec == EchoInit /\ [][EchoNext]_vars /\ WF_vars(animate)

\* ------------------------------------------------------------------------
\* Properties
\* ------------------------------------------------------------------------
IngestionOps ==
  {"paramListener", "meterListener", "toggleListener", "postSatMeterListener",
   "toggleClick", "startKnobDrag", "handleKnobDrag", "stopKnobDrag"}

InRange(p, x) == knobMin(p) <= x /\ x <= knobMax(p)

CurrentValues(ks) == [p \in Params |-> ks[p].currentValue]

TargetValues(ks) == [p \in Params |-> ks[p].targetValue]

Peaks(m) == [n \in MeterNames |-> m[n].peak]

RawValues(m) == [n \in MeterNames |-> m[n].value]

\* the places of the messages for parameter p in a sequence of sends
SentFor(s, p) == {i \in 1..Len(s) : s[i].param = p}

\* the knob has settled: the gap is within the smoothing threshold
Settled(k) == Abs(k.targetValue - k.currentValue) <= Epsilon

\* C1: in every reachable state every knob's currentValue and targetValue
\* lie within [min, max].
C1_KnobsWithinBounds ==
  \A p \in Params :
    InRange(p, knobs[p].currentValue) /\ InRange(p, knobs[p].targetValue)

\* C2: right after a host echo of value v for a known parameter that the
\* element listens to, currentValue and targetValue of that parameter both
\* equal clamp(v, min, max).
C2_HostEchoSetsClamped ==
  (last.op = "paramListener" /\ last.key \in Params /\ listeners["param"] > 0)
    => LET c == Clamp(last.value, knobMin(last.key), knobMax(last.key))
       IN /\ knobs[last.key].currentValue = c
          /\ knobs[last.key].targetValue = c

\* C3 as claimed: no ingestion event changes a knob's currentValue or a
\* meter's peak.
C3_IngestionLeavesCurrentAndPeak ==
  [][last'.op \in IngestionOps
       => /\ CurrentValues(knobs') = CurrentValues(knobs)
          /\ Peaks(meters') = Peaks(meters)]_vars

\* C3 as amended: no ingestion event changes a meter's peak, and none but the
\* host parameter echo changes a currentValue; the echo of a known parameter
\* writes currentValue and targetValue of that parameter alone; a meter sample
\* changes nothing but that meter's raw value.  A peak is changed by animate
\* alone, a currentValue by animate, the echo and the re-initialisation of
\* connectedCallback alone.
C3_IngestionWrites ==
  [][/\ last'.op \in IngestionOps => Peaks(meters') = Peaks(meters)
     /\ last'.op \in IngestionOps \ {"paramListener"}
          => CurrentValues(knobs') = CurrentValues(knobs)
     /\ last'.op = "paramListener"
          => /\ \A p \in Params \ {last'.key} : knobs'[p] = knobs[p]
             /\ meters' = meters
     /\ last'.op = "meterListener"
          => /\ knobs' = knobs
             /\ \A n \in MeterNames \ {meterOf(last'.key)} : meters'[n] = meters[n]
     /\ Peaks(meters') # Peaks(meters) => last'.op = "animate"
     /\ CurrentValues(knobs') # CurrentValues(knobs)
          => last'.op \in {"animate", "paramListener", "connectedCallback"}]_vars

\* C3 witness: a host echo has written the currentValue of a knob whose
\* gesture is active, outside any frame.
C3_Witness ==
  /\ last.op = "paramListener"
  /\ last.key \in Params
  /\ knobs[last.key].isDragging
  /\ knobs[last.key].currentValue = last.value
  /\ knobs[last.key].currentValue # knobInit(last.key)

\* C4 as claimed: only animate sends a value to the host.
C4_OnlyTickSends == sent # <<>> => last.op = "animate"

\* C4 as amended: a value of a knob parameter is sent by animate alone; the
\* one other sender is the click on a toggle button, which sends the new
\* state of that toggle; no other step sends anything.
C4_SendsByTickOrClick ==
  sent # <<>> =>
    \/ /\ last.op = "animate"
       /\ \A i \in 1..Len(sent) : sent[i].param \in Params
    \/ /\ last.op = "toggleClick"
       /\ \A i \in 1..Len(sent) :
            sent[i].param = last.key /\ sent[i].param \in Toggles
                                     /\ sent[i].value \in BOOLEAN

\* C4 witness: a frame has sent a knob value while a gesture is active.
C4_Witness ==
  /\ last.op = "animate"
  /\ sent # <<>>
  /\ \E p \in Params : knobs[p].isDragging

\* C5: once the element is disconnected, no ingestion event changes the
\* knobs, the meters, the toggle states or the saturation LED.
C5_StoppedIgnoresIngestion ==
  [][(~connected /\ last'.op \in IngestionOps)
       => UNCHANGED <<knobs, meters, toggles, saturationLed>>]_vars

\* C6: while the element is disconnected no frame request is pending and no
\* frame runs; the next frame request is made by connectedCallback.
C6_StopCancelsFrames ==
  /\ [](~connected => pendingFrames = {})
  /\ [][~connected => last'.op # "animate"]_vars
  /\ [][(~connected /\ pendingFrames' # {}) => last'.op = "connectedCallback"]_vars

\* C6 witness: the element was disconnected after frames had run.
C6_Witness ==
  /\ last.op = "disconnectedCallback"
  /\ ~connected
  /\ ticksLeft < MaxTicks
  /\ animationFrameRequest # 0

\* C7: in a frame, a knob whose gap exceeds the threshold moves by the gap
\* times the smoothing factor and exactly one message with its new
\* currentValue is sent; any other knob keeps its currentValue and nothing is
\* sent for it; no targetValue changes.
C7_TickSmoothing ==
  [][last'.op = "animate" =>
       \A p \in Params :
         LET c == knobs[p].currentValue
             t == knobs[p].targetValue
         IN /\ knobs'[p].targetValue = t
            /\ IF Abs(t - c) > Epsilon
               THEN /\ knobs'[p].currentValue =
                         c + RoundDiv((t - c) * smoothingNum(variant), smoothingDen)
                    /\ Cardinality(SentFor(sent', p)) = 1
                    /\ \A i \in SentFor(sent', p) :
                         sent'[i].value = knobs'[p].currentValue
               ELSE /\ knobs'[p].currentValue = c
                    /\ SentFor(sent', p) = {}]_vars

\* C7 witness: a frame moved one knob and sent its value, and left a settled
\* knob alone.
C7_Witness ==
  /\ last.op = "animate"
  /\ Len(sent) = 1
  /\ \E p \in Params : knobs[p].targetValue = knobs[p].currentValue

\* C8: with the factor 0.5, one frame takes current 0 and target 10 to
\* current 5; with no ingestion event arriving, the frames bring every knob
\* within the threshold of its target (unless the frames are cancelled), and
\* a frame leaves a settled knob's currentValue alone and sends nothing for it.
C8_SmoothingConverges ==
  /\ [][(last'.op = "animate" /\ smoothingNum(variant) * 2 = smoothingDen)
          => \A p \in Params :
               (knobs[p].currentValue = 0 /\ knobs[p].targetValue = Dec(10, 1))
                 => knobs'[p].currentValue = Dec(5, 1)]_vars
  /\ <>[](pendingFrames = {} \/ \A p \in Params : Settled(knobs[p]))
  /\ [][last'.op = "animate" =>
          \A p \in Params :
            Settled(knobs[p]) => /\ knobs'[p].currentValue = knobs[p].currentValue
                                 /\ SentFor(sent', p) = {}
                                 /\ Settled(knobs'[p])]_vars

\* C8 witness: frames have run until every knob settled, one of them short of
\* its target by less than the threshold.
C8_Witness ==
  /\ last.op = "animate"
  /\ sent = <<>>
  /\ \A p \in Params : Settled(knobs[p])
  /\ \E p \in Params : knobs[p].targetValue # knobs[p].currentValue

\* C9: a pointer move of deltaY pixels sets the targetValue of every knob
\* with an active gesture to clamp(targetValue - deltaY * sensitivity *
\* (max - min) / 100, min, max); moving up never decreases the targetValue,
\* moving down never increases it, and the result is within [min, max].
C9_GestureDelta ==
  [][(last'.op = "handleKnobDrag" /\ listeners["drag"] > 0) =>
       \A p \in Params :
         knobs[p].isDragging =>
           LET deltaY == knobs'[p].lastY - knobs[p].lastY
               t == knobs[p].targetValue
           IN /\ knobs'[p].targetValue =
                   Clamp(t - RoundDiv(deltaY * sensitivityNum(variant)
                                        * ((knobMax(p) - knobMin(p)) \div 100),
                                      sensitivityDen),
                         knobMin(p), knobMax(p))
              /\ deltaY <= 0 => knobs'[p].targetValue >= t
              /\ deltaY >= 0 => knobs'[p].targetValue <= t
              /\ InRange(p, knobs'[p].targetValue)]_vars

\* C10: a pointer move changes no currentValue, no targetValue of a knob
\* without an active gesture, no meter and no history state; a later frame
\* moves the currentValue no further from the target.
C10_GestureFrame ==
  [][/\ last'.op = "handleKnobDrag" =>
          /\ CurrentValues(knobs') = CurrentValues(knobs)
          /\ \A p \in Params :
               ~knobs[p].isDragging => knobs'[p].targetValue = knobs[p].targetValue
          /\ UNCHANGED <<meters, waveformHistory, frameCount>>
     /\ last'.op = "animate" =>
          \A p \in Params :
            Abs(knobs'[p].targetValue - knobs'[p].currentValue)
              <= Abs(knobs[p].targetValue - knobs[p].currentValue)]_vars

\* C10 witness: a pointer move has changed the target of the knob with the
\* active gesture and left the other knob, which has none, settled.
C10_Witness ==
  /\ last.op = "handleKnobDrag"
  /\ \E p \in Params :
       /\ knobs[p].isDragging
       /\ knobs[p].targetValue # knobs[p].currentValue
  /\ \E q \in Params :
       /\ ~knobs[q].isDragging
       /\ knobs[q].targetValue = knobs[q].currentValue

\* the last sample of the history and the one before it
LastSample(h) == h[Len(h)]

PrevSample(h) == h[Len(h) - 1]

\* C11 as claimed: in a frame each level meter gets peak = max(rawValue,
\* peak - decayRate): the peak jumps up to a louder raw value, otherwise it
\* falls by exactly decayRate; after the frame peak >= rawValue.
C11_PeakFallsByDecayRate ==
  [][last'.op = "animate" =>
       \A n \in LevelMeters :
         LET raw == meters[n].value
             peak == meters[n].peak
         IN /\ meters'[n].peak = Max(raw, peak - decayRate)
            /\ IF raw > peak
               THEN meters'[n].peak = raw
               ELSE meters'[n].peak = peak - decayRate
            /\ meters'[n].peak >= meters'[n].value]_vars

\* C11 as amended: in a frame each level meter gets peak = max(rawValue,
\* peak - decayRate): the peak jumps up to a louder raw value; otherwise it
\* falls by decayRate but not below the raw value, so by less than decayRate
\* (or not at all) when the raw value is within decayRate of the peak; the
\* frame leaves the raw value alone and after it peak >= rawValue.
C11_PeakDecay ==
  [][last'.op = "animate" =>
       \A n \in LevelMeters :
         LET raw == meters[n].value
             peak == meters[n].peak
         IN /\ meters'[n].peak = Max(raw, peak - decayRate)
            /\ raw > peak => meters'[n].peak = raw
            /\ raw < peak - decayRate => meters'[n].peak = peak - decayRate
            /\ (peak - decayRate <= raw /\ raw <= peak) => meters'[n].peak = raw
            /\ meters'[n].value = raw
            /\ meters'[n].peak >= meters'[n].value]_vars

\* C11 witness: after a frame the input peak has fallen by decayRate from a
\* louder sample to above a quieter one, and the output peak, held up by its
\* raw value, has not fallen.
C11_Witness ==
  /\ last.op = "animate"
  /\ meters.inputLevel.value = Dec(-55, 1)
  /\ meters.inputLevel.peak = Dec(-35, 1) - decayRate
  /\ meters.outputLevel.peak = meters.outputLevel.value

\* C12: if the input meter's raw value is below -50 when a frame runs, the
\* gain reduction meter has raw value 0 and peak 0 after that frame, whatever
\* it held before.
C12_SilenceFloor ==
  [][(last'.op = "animate" /\ meters.inputLevel.value < silenceFloor)
       => meters'.gainReduction = [value |-> 0, peak |-> 0]]_vars

\* C12 witness: a frame recorded a gain reduction of -6, and the next frame,
\* run with the input below the floor, cleared the meter.
C12_Witness ==
  /\ last.op = "animate"
  /\ Len(waveformHistory) >= 2
  /\ PrevSample(waveformHistory).gainReduction = Dec(-6, 1)
  /\ LastSample(waveformHistory).inputLevel < silenceFloor
  /\ meters.gainReduction = [value |-> 0, peak |-> 0]

\* C13: if the gain reduction meter's raw value is within the dead zone when
\* a frame runs, the frame sets its peak and its raw value to 0; otherwise
\* the frame sets the peak to the raw value, whatever the peak was (the raw
\* value being the one the meter held, unless the silence floor cleared it).
C13_DeadZone ==
  [][last'.op = "animate" =>
       LET raw == meters.gainReduction.value
       IN IF Abs(raw) < deadZone
          THEN meters'.gainReduction = [value |-> 0, peak |-> 0]
          ELSE /\ meters'.gainReduction.peak = meters'.gainReduction.value
               /\ meters.inputLevel.value >= silenceFloor
                    => meters'.gainReduction.value = raw]_vars

\* C13 witness: a frame recorded a gain reduction of -6, and the next frame,
\* run with the input above the silence floor, found a raw value within the
\* dead zone and cleared the meter.
C13_Witness ==
  /\ last.op = "animate"
  /\ Len(waveformHistory) >= 2
  /\ PrevSample(waveformHistory).gainReduction = Dec(-6, 1)
  /\ LastSample(waveformHistory).inputLevel >= silenceFloor
  /\ meters.gainReduction = [value |-> 0, peak |-> 0]

\* the last k elements of a sequence
LastOf(q, k) == SubSeq(q, Len(q) - k + 1, Len(q))

\* C14: the history never holds more than historyLength samples; it holds the
\* most recent min(k, historyLength) of the k samples pushed so far, in push
\* order, the oldest first; after historyLength + 5 pushes, the last
\* historyLength of them.
C14_HistoryFifo ==
  /\ Len(waveformHistory) <= historyLength
  /\ waveformHistory = LastOf(pushed, Min(Len(pushed), historyLength))
  /\ Len(pushed) = historyLength + 5
       => waveformHistory = SubSeq(pushed, 6, historyLength + 5)

\* C14 witness: historyLength + 5 samples have been pushed, the samples kept
\* differ from one another and from the first sample dropped.
C14_Witness ==
  /\ Len(pushed) = historyLength + 5
  /\ Len(waveformHistory) = historyLength
  /\ waveformHistory[1] # waveformHistory[historyLength]
  /\ pushed[1] # waveformHistory[1]

\* C15: with historyUpdateRate R >= 1, after n frames n div R samples have
\* been pushed, so a sample is pushed in the frames R, 2R, 3R, ... and in no
\* other; between frames 0 <= frameCount < R (frameCount is n mod R).
C15_HistorySubRate ==
  LET n == HistoryTicks - ticksLeft
      R == historyUpdateRate
  IN /\ R >= 1
     /\ 0 <= frameCount /\ frameCount < R
     /\ frameCount = n % R
     /\ Len(pushed) = n \div R

\* C15 witness: at rate 2, four frames have run and two samples are pushed,
\* the second in the frame just run.
C15_Witness ==
  /\ last.op = "animate"
  /\ historyUpdateRate = 2
  /\ ticksLeft = HistoryTicks - 4
  /\ Len(pushed) = 2
  /\ frameCount = 0

\* C16: a host echo whose key is not a knob's changes nothing: no knob, no
\* threshold line, no meter, no history, no toggle; and it sends nothing.
C16_UnknownKeyIgnored ==
  [][(last'.op = "paramListener" /\ last'.key \notin Params)
       => /\ UNCHANGED <<knobs, currentThresholdDb, meters, waveformHistory,
                         frameCount, toggles, saturationLed, pendingFrames>>
          /\ sent' = <<>>]_vars

\* C16 witness: an echo of an unknown key has reached the listening element
\* after an echo had moved the threshold knob and the threshold line.
C16_Witness ==
  /\ last.op = "paramListener"
  /\ last.key \notin Params
  /\ listeners["param"] > 0
  /\ knobs["thresholdDbIn"].currentValue # knobInit("thresholdDbIn")
  /\ currentThresholdDb = knobs["thresholdDbIn"].currentValue

\* C17: a frame runs silence floor, level peak decay, gain reduction dead
\* zone, knob smoothing, history push and rendering in this order, each step
\* on what the steps before it left: the sample pushed holds the raw values
\* after steps 1 and 3; the readouts (from which updateMeters lights the
\* LEDs), the threshold line and the bars rendered are the peaks, the
\* threshold and the history as steps 1 to 5 of this frame leave them; and
\* nothing an ingestion event writes changes in the frame but by these steps.
C17_FrameOrder ==
  [][last'.op = "animate" =>
       LET gr1 == IF meters.inputLevel.value < silenceFloor
                  THEN [value |-> 0, peak |-> 0]
                  ELSE meters.gainReduction
           lv2(n) == [value |-> meters[n].value,
                      peak  |-> Max(meters[n].value, meters[n].peak - decayRate)]
           gr3 == IF Abs(gr1.value) < deadZone
                  THEN [value |-> 0, peak |-> 0]
                  ELSE [value |-> gr1.value, peak |-> gr1.value]
           gap(p) == knobs[p].targetValue - knobs[p].currentValue
           cur4(p) == IF Abs(gap(p)) > Epsilon
                      THEN knobs[p].currentValue
                             + RoundDiv(gap(p) * smoothingNum(variant), smoothingDen)
                      ELSE knobs[p].currentValue
           thr4 == IF Abs(gap("thresholdDbIn")) > Epsilon
                   THEN cur4("thresholdDbIn") ELSE currentThresholdDb
           sample5 == [inputLevel    |-> meters.inputLevel.value,
                       gainReduction |-> gr3.value,
                       outputLevel   |-> meters.outputLevel.value]
           h5 == IF frameCount + 1 >= historyUpdateRate
                 THEN IF Len(waveformHistory) >= historyLength
                      THEN Append(Tail(waveformHistory), sample5)
                      ELSE Append(waveformHistory, sample5)
                 ELSE waveformHistory
       IN /\ meters' = [gainReduction |-> gr3,
                        inputLevel    |-> lv2("inputLevel"),
                        outputLevel   |-> lv2("outputLevel")]
          /\ \A p \in Params :
               knobs'[p] = [knobs[p] EXCEPT !.currentValue = cur4(p)]
          /\ currentThresholdDb' = thr4
          /\ waveformHistory' = h5
          /\ rendered'.lit
          /\ rendered'.meterValue = Peaks(meters')
          /\ rendered'.waveform =
               [drawn |-> TRUE, thresholdDb |-> currentThresholdDb',
                bars |-> [i \in 1..Len(waveformHistory') |->
                            waveformHistory'[i].inputLevel]]
          /\ UNCHANGED <<toggles, saturationLed, connected, listeners>>]_vars

\* C17 witness: the last frame explored has moved the threshold knob, sent
\* its value, pushed a sample into the full history and drawn the line at
\* the value sent and a bar for every sample.
C17_Witness ==
  /\ last.op = "animate"
  /\ ticksLeft = 0
  /\ Len(sent) = 1
  /\ sent[1].param = "thresholdDbIn"
  /\ rendered.waveform.drawn
  /\ rendered.waveform.thresholdDb = sent[1].value
  /\ Len(rendered.waveform.bars) = historyLength

\* C18: at most one frame request is pending at any time; while the element
\* is connected it is the one the element holds; a frame consumes the pending
\* request and leaves exactly one new request; through any sequence of
\* connects, frames and disconnects.
C18_OneFramePending ==
  /\ [](Cardinality(pendingFrames) <= 1)
  /\ [](connected => pendingFrames = {animationFrameRequest})
  /\ [][last'.op = "animate" =>
          /\ connected
          /\ Cardinality(pendingFrames') = 1
          /\ pendingFrames' = {animationFrameRequest'}
          /\ pendingFrames' # pendingFrames]_vars

\* C18 witness: a frame has run after a restart, all frames explored spent.
C18_Witness ==
  /\ last.op = "animate"
  /\ connected
  /\ startsLeft = MaxStarts - 2
  /\ ticksLeft = 0
  /\ Cardinality(pendingFrames) = 1

\* C19: in every state the threshold line (currentThresholdDb) equals the
\* currentValue of the threshold knob.
C19_ThresholdLineFollowsKnob ==
  currentThresholdDb = knobs["thresholdDbIn"].currentValue

\* C20: for every meter, every LED and every peak shown, the intensity
\* passed to the colour blend is within [0, 1].
C20_IntensityWithinUnit ==
  rendered.lit =>
    \A n \in MeterNames, i \in Dots :
      LET x == intensity(n, i, meters[n].peak)
      IN /\ 0 <= x
         /\ x <= One
         /\ led(rendered, n, i) = x

\* C20 witness: the meters show an input peak above the top of the scale, a
\* gain reduction whose last lit LED is partly lit, and an output peak below
\* the bottom of the scale.
C20_Witness ==
  /\ last.op = "animate"
  /\ rendered.lit
  /\ rendered.meterValue.inputLevel > maxDb("inputLevel")
  /\ rendered.meterValue.outputLevel < minDb("outputLevel")
  /\ \E i \in Dots :
       /\ 0 < led(rendered, "gainReduction", i)
       /\ led(rendered, "gainReduction", i) < One

\* the scale of a meter and the level of its LED i, both multiplied by
\* ledCount - 1, where step = (maxDb - minDb) / (ledCount - 1) is exact
LedCount == Cardinality(Dots)

StepTimes(n) == Abs(maxDb(n) - minDb(n))

DotDbTimes(n, i) ==
  IF n \in LevelMeters
  THEN (LedCount - 1) * minDb(n) + i * StepTimes(n)
  ELSE 0 - i * StepTimes(n)

\* x / step as an intensity, x multiplied by ledCount - 1
OverStep(x, n) == RoundDiv(x, StepTimes(n) \div Scale)

\* C21: on a level meter an LED whose dotDb <= peak has intensity 1, an LED
\* whose dotDb - step > peak has intensity 0, any other LED has intensity
\* (peak - (dotDb - step)) / step; at peak -10 every LED whose dotDb is above
\* -10 + step has intensity 0 and every LED at or below -10 has intensity 1.
C21_AscendingFill ==
  rendered.lit =>
    \A n \in LevelMeters, i \in Dots :
      LET peak == (LedCount - 1) * meters[n].peak
          dot  == DotDbTimes(n, i)
          step == StepTimes(n)
          x    == led(rendered, n, i)
      IN /\ dot <= peak => x = One
         /\ dot - step > peak => x = 0
         /\ (dot > peak /\ dot - step <= peak) => x = OverStep(peak - (dot - step), n)
         /\ meters[n].peak = Dec(-10, 1) =>
              /\ dot > (LedCount - 1) * Dec(-10, 1) + step => x = 0
              /\ dot <= (LedCount - 1) * Dec(-10, 1) => x = One

\* C21 witness: the input meter shows the peak -10: LED 14 (dotDb -10.43) is
\* full on, LED 15 (dotDb -8.61) is partly lit, LED 16 (dotDb -6.78) is off.
C21_Witness ==
  /\ last.op = "animate"
  /\ rendered.lit
  /\ meters.inputLevel.peak = Dec(-10, 1)
  /\ led(rendered, "inputLevel", 14) = One
  /\ 0 < led(rendered, "inputLevel", 15)
  /\ led(rendered, "inputLevel", 15) < One
  /\ led(rendered, "inputLevel", 16) = 0

\* C22 as claimed: on the gain reduction meter, with v = min(0, peak) and
\* dotDb = -i * step, LED i has intensity 1 when v <= dotDb, 0 when
\* v > dotDb + step, and (dotDb + step - v) / step in between.
C22_DescendingFillClaimed ==
  rendered.lit =>
    \A i \in Dots :
      LET n    == "gainReduction"
          v    == (LedCount - 1) * Min(0, meters[n].peak)
          dot  == DotDbTimes(n, i)
          step == StepTimes(n)
          x    == led(rendered, n, i)
      IN /\ v <= dot => x = One
         /\ v > dot + step => x = 0
         /\ (v > dot /\ v <= dot + step) => x = OverStep(dot + step - v, n)

\* C22 as amended: the same, except that at rest, when v >= -0.01, every LED
\* of the gain reduction meter has intensity 0 (LED 0, whose dotDb is 0,
\* included).
C22_DescendingFill ==
  rendered.lit =>
    \A i \in Dots :
      LET n    == "gainReduction"
          v    == (LedCount - 1) * Min(0, meters[n].peak)
          dot  == DotDbTimes(n, i)
          step == StepTimes(n)
          x    == led(rendered, n, i)
      IN IF Min(0, meters[n].peak) >= 0 - Dec(1, 100)
         THEN x = 0
         ELSE /\ v <= dot => x = One
              /\ v > dot + step => x = 0
              /\ (v > dot /\ v <= dot + step) => x = OverStep(dot + step - v, n)

\* C22 witness: the gain reduction meter shows -6: LED 3 (dotDb -4.70) is
\* full on, LED 4 (dotDb -6.26) is partly lit, LED 5 (dotDb -7.83) is off.
C22_Witness ==
  /\ last.op = "animate"
  /\ rendered.lit
  /\ meters.gainReduction.peak = Dec(-6, 1)
  /\ led(rendered, "gainReduction", 3) = One
  /\ 0 < led(rendered, "gainReduction", 4)
  /\ led(rendered, "gainReduction", 4) < One
  /\ led(rendered, "gainReduction", 5) = 0

\* C23: the active colour of an LED is red on the gain reduction meter; on a
\* level meter it is green when dotDb < -12, yellow when -12 <= dotDb < 0,
\* red when dotDb >= 0; whatever the peak shown, a full-on LED shows its
\* active colour and an LED that is off shows the off colour.
C23_ActiveColorBands ==
  \A n \in MeterNames, i \in Dots :
    LET dot  == DotDbTimes(n, i)
        band == IF n = "gainReduction" THEN <<255, 82, 82>>
                ELSE IF dot < (LedCount - 1) * Dec(-12, 1) THEN <<76, 175, 80>>
                ELSE IF dot < 0 THEN <<255, 235, 59>>
                ELSE <<255, 82, 82>>
        x    == led(rendered, n, i)
    IN /\ activeColor(n, i) = band
       /\ x = One => dotColor(rendered, n, i) = band
       /\ x = 0 => dotColor(rendered, n, i) = <<51, 51, 51>>

\* C23 witness: the input meter is lit to the top, green at LED 0, yellow at
\* LED 14, red at LED 23, while the gain reduction meter shows red at LED 0
\* and the output meter, below its scale, is dark from LED 1 on.
C23_Witness ==
  /\ last.op = "animate"
  /\ rendered.lit
  /\ dotColor(rendered, "inputLevel", 0) = greenColor
  /\ dotColor(rendered, "inputLevel", 14) = yellowColor
  /\ dotColor(rendered, "inputLevel", 23) = redColor
  /\ dotColor(rendered, "gainReduction", 0) = redColor
  /\ dotColor(rendered, "outputLevel", 1) = offColor

\* C24: for colours with integer channels in [0, 255], lerpColor at t = 0
\* gives the off colour, at t = 1 the on colour, and for every t in [0, 1]
\* every channel of the result is an integer in [0, 255] between the off and
\* the on channel.
C24_BlendEndpoints ==
  last.op = "lerpColor" =>
    LET off == last.key.off
        on  == last.key.on
        t   == last.key.t
        out == last.value
    IN /\ t = 0 => out = off
       /\ t = One => out = on
       /\ \A c \in 1..3 :
            /\ out[c] \in 0..255
            /\ Min(off[c], on[c]) <= out[c]
            /\ out[c] <= Max(off[c], on[c])

\* C24 witness: halfway from the off colour to red the blend is (153, 67, 67).
C24_Witness ==
  /\ last.op = "lerpColor"
  /\ last.key = [off |-> offColor, on |-> redColor, t |-> Dec(1, 2)]
  /\ last.value = <<153, 67, 67>>

\* C25: cubicEase(0) = 0, cubicEase(0.5) = 0.5, cubicEase(1) = 1; on [0, 1]
\* its value is in [0, 1] and it never decreases, across t = 0.5 included.
C25_EaseMonotone ==
  last.op = "cubicEase" =>
    LET t == last.key
        y == last.value
    IN /\ t = 0 => y = 0
       /\ t = Dec(1, 2) => y = Dec(1, 2)
       /\ t = One => y = One
       /\ 0 <= y /\ y <= One
       /\ \A u \in EaseInputs :
            /\ u >= t => cubicEase(u) >= y
            /\ u <= t => cubicEase(u) <= y

\* C25 witness: the ease of the first grid point from 0.5 on, 0.5 itself when
\* the grid holds it, is at least 0.5 and less than 1.
C25_Witness ==
  /\ last.op = "cubicEase"
  /\ last.key >= Dec(1, 2)
  /\ last.key < Dec(1, 2) + Scale \div EaseSteps
  /\ last.value >= Dec(1, 2)
  /\ last.value < One

\* C26: dbToY(db, h) = dbToY(clamp(db, -60, 12), h), so dbToY(20, h) =
\* dbToY(12, h); the result is within [0, h]; a higher level is never drawn
\* lower (y never increases with db).
C26_DbToYClamps ==
  last.op = "dbToY" =>
    LET db == last.key.db
        h  == last.key.height
        y  == last.value
    IN /\ y = dbToY(Clamp(db, Dec(-60, 1), Dec(12, 1)), h)
       /\ db = Dec(20, 1) => y = dbToY(Dec(12, 1), h)
       /\ 0 <= y /\ y <= h * Scale
       /\ \A d \in DbValues : d >= db => dbToY(d, h) <= y

\* C26 witness: a level of 20 on a canvas 150 high is drawn at the top, y = 0.
C26_Witness ==
  /\ last.op = "dbToY"
  /\ last.key = [db |-> Dec(20, 1), height |-> 150]
  /\ last.value = 0

\* C27: the angle a knob shows is ((currentValue - min) / (max - min)) * 270
\* - 135, and in every reachable state it lies within -135 .. +135 degrees.
C27_RotationWithinSweep ==
  \A p \in Params :
    /\ knobRotation(knobs, p) =
         RoundDiv((knobs[p].currentValue - knobMin(p)) * 270,
                  (knobMax(p) - knobMin(p)) \div Scale) - 135 * Scale
    /\ 0 - 135 * Scale <= knobRotation(knobs, p)
    /\ knobRotation(knobs, p) <= 135 * Scale

\* C28: after each postSatMeter event with value v the saturation LED is on
\* exactly when v >= 8.0, and no other step (tick, echo, meter sample,
\* gesture, toggle, start or stop) changes it.
C28_SaturationLedFollowsLast ==
  [][/\ (last'.op = "postSatMeterListener" /\ listeners["postSatMeter"] > 0)
          => saturationLed' = (last'.value >= Dec(8, 1))
     /\ last'.op # "postSatMeterListener" => saturationLed' = saturationLed]_vars

\* C28 witness: a postSatMeter value of exactly 8.0 has lit the LED.
C28_Witness ==
  /\ last.op = "postSatMeterListener"
  /\ listeners["postSatMeter"] > 0
  /\ last.value = Dec(8, 1)
  /\ saturationLed

\* C29: while no meter sample has arrived (the level meters at raw = peak =
\* -36, the gain reduction meter at raw = peak = 0), a tick leaves all three
\* meters at these values, and the readouts show them.
C29_TickKeepsDefaults ==
  [][(/\ last'.op = "animate"
      /\ meters = [gainReduction |-> [value |-> 0, peak |-> 0],
                   inputLevel    |-> [value |-> Dec(-36, 1), peak |-> Dec(-36, 1)],
                   outputLevel   |-> [value |-> Dec(-36, 1), peak |-> Dec(-36, 1)]])
       => /\ meters' = meters
          /\ rendered'.meterValue = [gainReduction |-> 0,
                                     inputLevel    |-> Dec(-36, 1),
                                     outputLevel   |-> Dec(-36, 1)]]_vars

\* C29 witness: every tick of the budget has run, no host event has arrived,
\* and the meters are as constructed.
C29_Witness ==
  /\ last.op = "animate"
  /\ ticksLeft = 0
  /\ eventsLeft = MaxEvents
  /\ meters.gainReduction = [value |-> 0, peak |-> 0]
  /\ meters.inputLevel = [value |-> Dec(-36, 1), peak |-> Dec(-36, 1)]
  /\ meters.outputLevel = [value |-> Dec(-36, 1), peak |-> Dec(-36, 1)]

\* C30: a meter sample stores its value as the raw value of its meter and
\* changes nothing else: that meter's peak, the other meters, the parameters,
\* the history, the threshold line, the frame counter and everything drawn
\* stay as they were, and nothing is sent.
C30_SampleWritesRawOnly ==
  [][(last'.op = "meterListener" /\ listeners[last'.key] > 0)
       => /\ meters'[meterOf(last'.key)].value = last'.value
          /\ meters'[meterOf(last'.key)].peak = meters[meterOf(last'.key)].peak
          /\ \A n \in MeterNames \ {meterOf(last'.key)} : meters'[n] = meters[n]
          /\ sent' = <<>>
          /\ UNCHANGED <<knobs, waveformHistory, frameCount, currentThresholdDb,
                         toggles, saturationLed, rendered, listeners,
                         animationFrameRequest, pendingFrames>>]_vars

\* C30 witness: a sample has been stored as a raw value its meter's peak does
\* not show yet.
C30_Witness ==
  /\ last.op = "meterListener"
  /\ listeners[last.key] > 0
  /\ meters[meterOf(last.key)].value = last.value
  /\ meters[meterOf(last.key)].peak # last.value
  /\ rendered.meterValue[meterOf(last.key)] # last.value

\* C32: after every tick the gain reduction meter's peak equals its raw
\* value: both are 0 when the silence floor (input raw below -50) or the dead
\* zone (|raw| < 0.05) collapsed them, and otherwise both are the raw value the
\* tick found, so the peak never shows an older sample.
C32_GainReductionPeakIsRaw ==
  [][last'.op = "animate" =>
       LET gr        == meters.gainReduction
           collapsed == \/ meters.inputLevel.value < Dec(-50, 1)
                        \/ Abs(gr.value) < Dec(5, 100)
       IN /\ meters'.gainReduction.peak = meters'.gainReduction.value
          /\ collapsed => meters'.gainReduction = [value |-> 0, peak |-> 0]
          /\ ~collapsed => meters'.gainReduction.peak = gr.value]_vars

\* C32 witness: a tick has taken the gain reduction peak from 0 to a raw
\* value of -6.
C32_Witness ==
  /\ last.op = "animate"
  /\ meters.gainReduction = [value |-> Dec(-6, 1), peak |-> Dec(-6, 1)]
  /\ rendered.meterValue["gainReduction"] = Dec(-6, 1)

\* C36: the history sample a tick pushes holds the three raw values as they
\* stand after the silence floor and the dead zone of that tick: the level
\* meters' raw values as the tick found them, and for gain reduction 0 when
\* either rule fired and the raw value otherwise; the peaks are not sampled.
C36_HistorySamplesRaw ==
  [][(last'.op = "animate" /\ frameCount + 1 >= historyUpdateRate) =>
       LET s         == LastSample(waveformHistory')
           collapsed == \/ meters.inputLevel.value < Dec(-50, 1)
                        \/ Abs(meters.gainReduction.value) < Dec(5, 100)
       IN /\ Len(waveformHistory') >= 1
          /\ s = RawValues(meters')
          /\ s.inputLevel = meters.inputLevel.value
          /\ s.outputLevel = meters.outputLevel.value
          /\ s.gainReduction = IF collapsed THEN 0 ELSE meters.gainReduction.value]_vars

\* C36 witness: a tick has pushed an input level of -55 while the input peak
\* is still decaying above it, and a gain reduction of 0 under the silence
\* floor.
C36_Witness ==
  /\ last.op = "animate"
  /\ frameCount = 0
  /\ Len(waveformHistory) >= 1
  /\ LastSample(waveformHistory).inputLevel = Dec(-55, 1)
  /\ LastSample(waveformHistory).gainReduction = 0
  /\ meters.inputLevel.peak > Dec(-55, 1)

\* C34: each level meter shows a fill level: the LED intensities never
\* increase with the LED index, and an LED with an intensity strictly between
\* 0 and 1 has every LED below it at 1 and every LED above it at 0 (so there
\* is at most one such LED).
C34_FillLevel ==
  \A n \in LevelMeters :
    LET x == [i \in Dots |-> led(rendered, n, i)]
    IN \A i \in Dots :
         /\ i + 1 \in Dots => x[i + 1] <= x[i]
         /\ (0 < x[i] /\ x[i] < One)
              => \A j \in Dots : /\ j < i => x[j] = One
                                 /\ j > i => x[j] = 0

\* C34 witness: the output meter is drawn with an LED partly lit between a
\* lit one and a dark one.
C34_Witness ==
  /\ last.op = "animate"
  /\ rendered.lit
  /\ \E i \in Dots :
       /\ i - 1 \in Dots /\ i + 1 \in Dots
       /\ led(rendered, "outputLevel", i - 1) = One
       /\ 0 < led(rendered, "outputLevel", i)
       /\ led(rendered, "outputLevel", i) < One
       /\ led(rendered, "outputLevel", i + 1) = 0

\* C35: a gain reduction peak p with |p| >= 0.05 lights the meter, whatever
\* the sign the host reports it with: the first gain reduction LED has an
\* intensity above 0.
C35_ReductionLightsMeter ==
  (rendered.lit /\ Abs(rendered.meterValue["gainReduction"]) >= Dec(5, 100))
    => led(rendered, "gainReduction", 0) > 0

\* C37: a pointer or touch move changes the targetValue of no parameter
\* whose gesture is not active, and leaves such a knob as it is; a mouseup or
\* touchend clears the gesture flag of every parameter; a gesture flag is set
\* by a mousedown or touchstart on that knob alone, so after the mouseup moves
\* change no parameter until a new gesture starts.
C37_GestureOwnership ==
  [][/\ last'.op = "handleKnobDrag"
          => \A p \in Params :
               /\ ~knobs[p].isDragging => knobs'[p] = knobs[p]
               /\ knobs'[p].isDragging = knobs[p].isDragging
               /\ knobs'[p].currentValue = knobs[p].currentValue
     /\ (last'.op = "stopKnobDrag" /\ listeners["drag"] > 0)
          => \A p \in Params :
               /\ ~knobs'[p].isDragging
               /\ knobs'[p].targetValue = knobs[p].targetValue
     /\ \A p \in Params :
          (knobs'[p].isDragging /\ ~knobs[p].isDragging)
            => (last'.op = "startKnobDrag" /\ last'.key = p)]_vars

\* C37 witness: a gesture started at clientY 60 on a knob and was released,
\* and a later pointer move has left every targetValue where it was.
C37_Witness ==
  /\ last.op = "handleKnobDrag"
  /\ listeners["drag"] > 0
  /\ \A p \in Params : /\ ~knobs[p].isDragging
                       /\ knobs[p].targetValue = knobInit(p)
  /\ \E p \in Params : knobs[p].lastY = 60

\* C38: after start, stop, start, with the document's move handlers
\* registered once per start, one pointer move to clientY y changes the
\* targetValue of a knob whose gesture is active by one delta,
\* clamp(targetValue - (y - lastY) * sensitivity * (max - min) / 100, min,
\* max), and leaves lastY = y; one parameter listener is registered at most,
\* and one host echo of a known parameter leaves that knob at the echoed value
\* and the other knobs alone.
C38_RestartHandlesOnce ==
  [][/\ (last'.op = "handleKnobDrag" /\ listeners["drag"] >= 2)
          => \A p \in Params :
               knobs[p].isDragging =>
                 /\ knobs'[p].targetValue =
                      Clamp(knobs[p].targetValue
                              - RoundDiv((last'.value - knobs[p].lastY)
                                           * sensitivityNum(variant)
                                           * ((knobMax(p) - knobMin(p)) \div 100),
                                         sensitivityDen),
                            knobMin(p), knobMax(p))
                 /\ knobs'[p].lastY = last'.value
     /\ listeners'["param"] <= 1
     /\ (last'.op = "paramListener" /\ listeners["param"] > 0
           /\ last'.key \in Params)
          => /\ knobs'[last'.key].currentValue = last'.value
             /\ knobs'[last'.key].targetValue = last'.value
             /\ \A p \in Params \ {last'.key} : knobs'[p] = knobs[p]]_vars

\* C38 witness: the element was started, stopped and started again, so two
\* move handlers are registered, and one pointer move of 60 pixels down has
\* lowered the target of the knob held by one delta of 60 pixels.
C38_Witness ==
  /\ last.op = "handleKnobDrag"
  /\ last.value = 60
  /\ listeners["drag"] = 2
  /\ connected
  /\ \E p \in Params :
       /\ knobs[p].isDragging
       /\ knobs[p].lastY = 60
       /\ knobs[p].targetValue =
            knobInit(p) - RoundDiv(60 * sensitivityNum(variant)
                                     * ((knobMax(p) - knobMin(p)) \div 100),
                                   sensitivityDen)

\* C33: while a level meter receives no new sample, from one tick to the next
\* its peak does not rise and falls by decayRate (0.5) at most; a peak equal
\* to the raw value stays there; and the ticks bring the peak of every level
\* meter to its raw value for good (unless the frames are cancelled).
C33_DecayEnds ==
  /\ [][(last.op # "meterListener" /\ last'.op = "animate") =>
          \A n \in LevelMeters :
            /\ meters'[n].value = meters[n].value
            /\ meters'[n].peak <= meters[n].peak
            /\ meters[n].peak - meters'[n].peak <= Dec(5, 10)
            /\ meters[n].peak = meters[n].value
                 => meters'[n].peak = meters'[n].value]_vars
  /\ <>[](\/ pendingFrames = {}
          \/ \A n \in LevelMeters : meters[n].peak = meters[n].value)

\* C33 witness: the ticks have brought the input peak down from -36 to a raw
\* value of -60 and the output peak down by 0.3 to a raw value of -38.2.
C33_Witness ==
  /\ last.op = "animate"
  /\ meters.inputLevel = [value |-> Dec(-60, 1), peak |-> Dec(-60, 1)]
  /\ meters.outputLevel = [value |-> Dec(-382, 10), peak |-> Dec(-382, 10)]
  /\ rendered.meterValue["inputLevel"] = Dec(-60, 1)

\* C31: a gesture has left a knob's targetValue at T and no further gesture
\* occurs; then the frames bring the knob's currentValue within the smoothing
\* threshold of T for good, also when the host echoes the values the frames
\* send back to the parameter listener between the frames.
C31_TargetReachedDespiteEcho ==
  <>[](\A p \in Params :
         knobs[p].lastY = 60
           => Abs(knobs[p].currentValue - GestureTarget(p, variant)) <= Epsilon)

====
